---------------------------- MODULE Spec2Model ----------------------------
(***************************************************************************)
(* Job orchestration core of Sentimatrix Studio: the JobQueue worker and   *)
(* ScrapeExecutor (services/scrape_executor.py), the scrape-job record     *)
(* store (repositories/scrape_job.py), the schedule store                  *)
(* (repositories/schedule.py) and the webhook store                        *)
(* (repositories/webhook.py), with the API handlers that write to them.    *)
(*                                                                         *)
(* Every database call is awaited, so another coroutine may run between    *)
(* any two of them: each action below is one database operation together   *)
(* with the local computation that precedes it.                            *)
(***************************************************************************)
EXTENDS Integers, Sequences, FiniteSets, TLC

(* ------------------------------ bounds -------------------------------- *)
NJobs == 2
MaxTargets == 1
MaxRetriesBound == 2   \* max_retries ranges over 0..MaxRetriesBound (the model admits 0..10)
MaxFailures == 3       \* no failure is recorded beyond this count
RunTargets == 2        \* targets of a job in the runs without cancellation
NHooks == 2            \* webhooks in the collection an event is fanned out over
NSchedules == 2        \* schedules in the collection the scheduler polls
MaxTicks == 2          \* polling ticks followed
MaxItems == 3          \* items one scrape of a target returns
NClock == 2            \* instants the timestamp of a payload is read at
NDeliveries == 2       \* deliveries to the webhook in flight together
MaxDeliveries == 6     \* no delivery is started beyond this count

(* --------------------------- program constants ------------------------ *)
DefaultMaxConcurrent == 3
DisableAfter == 4      \* record_delivery: failures read at which it disables

VARIABLES
    (* JobQueue and ScrapeExecutor *)
    max_concurrent,   \* JobQueue.max_concurrent, fixed at construction
    job,              \* scrape_jobs collection: job id -> record
    queue,            \* JobQueue._queue
    running,          \* keys of JobQueue._running
    cancelled,        \* ScrapeExecutor._cancelled of the executor of each job
    wpc,              \* position of the _worker coroutine
    wjob,             \* the job the worker is executing (0: none)
    widx,             \* index into job.targets of the for loop
    completed_targets,\* local counter of execute_job
    raised,           \* history: indices of the targets whose scrape raised
    missing,          \* history: indices of the targets _get_target did not find
    cpc,              \* position of the cancel_scrape_job request in flight
    cjob,             \* its job id (0: none)
    (* schedule store *)
    schedule,         \* the schedule document of one project (the one
                      \* find_one returns: the first inserted)
    schedule_docs,    \* number of schedule documents of the project
    cr_pc,            \* position of each create_schedule request in flight
    failed_since_completed, \* history: failed executions recorded since
                      \* the last completed one
    put_pc,           \* position of the update request (PUT) in flight
    put_dict,         \* its update_dict, once built
    tog_pc,           \* position of the toggle request in flight
    tog_dict,         \* its ScheduleUpdate, then its update_dict
    rpc,              \* position of the record_execution call in flight
    rstatus,          \* its status argument
    rupdate,          \* its update document, once built
    (* webhook store *)
    webhook,          \* one webhook document
    deliveries,       \* number of documents in webhook_deliveries
    dpc,              \* position of each delivery in flight
    dupdate,          \* the update document of its record_delivery
    htog_pc,          \* position of the toggle_webhook request in flight
    htog_enabled,     \* the enabled value it is going to set
    (* _calculate_next_run *)
    calc_pc,          \* "off", "ready" (arguments and clock given), "done"
    calc_in,          \* its arguments, and the clock and zone it reads
    calc_out,         \* the instant it returned
    (* trigger_event *)
    hooks,            \* the webhooks collection: id -> document
    trig_pc,          \* "off", "ready", "gather", "returned", "raised"
    trig_args,        \* user_id, event, project_id
    trig_sel,         \* ids of the webhooks get_webhooks_for_event returned
    posted,           \* ids of the webhooks a POST was sent to
    trig_result,      \* result of each deliver_webhook task
    trig_ret,         \* the value trigger_event returned
    (* deliver_webhook, the request it builds *)
    sign_pc,          \* "off", "ready", "sent"
    sign_in,          \* the webhook's secret and headers, event, payload, clock
    request,          \* the headers and content handed to client.post
    (* _scrape_and_analyze_target *)
    st_pc,            \* "off", "parse", "analyze", "store", "fallback", "returned", "raised"
    scraped_data,     \* the scraped items: whether the parsed item has text
    batch_contents,   \* the items with text, in order
    analyses,         \* number of analyses analyze_batch returned
    st_idx,           \* position of the store loop under way
    stored,           \* item -> number of result documents inserted for it
    results_stored,   \* the count the function returns
    (* SchedulerService *)
    sdocs,            \* the schedules collection: id -> document
    tick,             \* number of polling ticks started; the clock of last_run
    tick_pc,          \* position of the polling task
    due,              \* the list get_due_schedules returned to this tick
    tick_i,           \* position in that list
    matched,          \* the documents the query of this tick matched
    attempted,        \* schedules _execute_schedule was called for in this tick
    fired,            \* per schedule: a job was enqueued and recorded as running
                      \* for its present next_run, in this tick or in an earlier one
    executions,       \* per schedule: number of execution records inserted
    sched_jobs        \* per schedule: number of jobs created and enqueued

jobVars == <<max_concurrent, job, queue, running, cancelled, wpc, wjob, widx,
             completed_targets, raised, missing, cpc, cjob>>

createVars == <<schedule_docs, cr_pc>>

schedVars == <<schedule, createVars, failed_since_completed, put_pc, put_dict,
               tog_pc, tog_dict, rpc, rstatus, rupdate>>

hookVars == <<webhook, deliveries, dpc, dupdate, htog_pc, htog_enabled>>

calcVars == <<calc_pc, calc_in, calc_out>>

trigVars == <<hooks, trig_pc, trig_args, trig_sel, posted, trig_result, trig_ret>>

(* The variables of the functions checked on their own. *)
signVars == <<sign_pc, sign_in, request>>

storeVars == <<st_pc, scraped_data, batch_contents, analyses, st_idx, stored, results_stored>>

tickVars == <<sdocs, tick, tick_pc, due, tick_i, matched, attempted, fired,
              executions, sched_jobs>>

fnVars == <<calcVars, trigVars, signVars, storeVars, tickVars>>

NotCalc == <<jobVars, schedVars, hookVars, trigVars, signVars, storeVars, tickVars>>
NotTrig == <<jobVars, schedVars, hookVars, calcVars, signVars, storeVars, tickVars>>
NotSign == <<jobVars, schedVars, hookVars, calcVars, trigVars, storeVars, tickVars>>
NotStore == <<jobVars, schedVars, hookVars, calcVars, trigVars, signVars, tickVars>>
NotTick == <<jobVars, schedVars, hookVars, calcVars, trigVars, signVars, storeVars>>

vars == <<jobVars, schedVars, hookVars, fnVars>>

(* What the operations of one component leave alone. *)
NotJobs == <<schedVars, hookVars, fnVars>>
NotSched == <<jobVars, hookVars, fnVars>>
NotHooks == <<jobVars, schedVars, fnVars>>

JobIds == 1..NJobs

Terminal == {"completed", "failed", "cancelled"}

(* A TargetJobStatus document; progress and results_count are set with    *)
(* the status and are not read by any operation.                          *)
TargetJobStatus(tid) == [target_id |-> tid, status |-> "pending"]

(* The target_ids lists create_job accepts: any non-empty list, repeated  *)
(* ids included. Lists are taken up to renaming of the ids.               *)
TargetLists ==
    { s \in UNION { [1..n -> 1..RunTargets] : n \in 1..RunTargets } :
        /\ s[1] = 1
        /\ \A i \in 2..Len(s) : \E k \in 1..(i-1) : s[i] <= s[k] + 1 }

(* The lists create_job builds itself from the project's active targets,  *)
(* and the explicit lists without a repeated id.                          *)
DistinctTargetLists == { [i \in 1..n |-> i] : n \in 1..MaxTargets }

NoJob == [status |-> "absent", progress |-> 0, targets |-> <<>>,
          stats |-> [targets_total |-> 0, targets_completed |-> 0,
                     errors_count |-> 0]]

(* ScrapeJobRepository.create_job: the inserted document. *)
create_job(target_ids) ==
    [status |-> "queued", progress |-> 0,
     targets |-> [i \in 1..Len(target_ids) |-> TargetJobStatus(target_ids[i])],
     stats |-> [targets_total |-> Len(target_ids), targets_completed |-> 0,
                errors_count |-> 0]]

(* ScrapeJobRepository.update_job_status: $set status, whatever it was. *)
update_job_status(doc, status) == [doc EXCEPT !.status = status]

(* ScrapeJobRepository.update_job_progress: $set progress. *)
update_job_progress(doc, progress) == [doc EXCEPT !.progress = progress]

(* The positional operator targets.$ : the first element of the array     *)
(* whose target_id matches.                                                *)
FirstMatch(targets, tid) ==
    CHOOSE i \in 1..Len(targets) :
        /\ targets[i].target_id = tid
        /\ \A k \in 1..(i-1) : targets[k].target_id # tid

(* ScrapeJobRepository.update_target_status. *)
update_target_status(doc, tid, status) ==
    [doc EXCEPT !.targets[FirstMatch(doc.targets, tid)].status = status]

(* ScrapeJobRepository.increment_stats: $inc stats.<field>. *)
increment_stats(doc, field) ==
    [doc EXCEPT !.stats[field] = doc.stats[field] + 1]

(* A slip: the share of the targets still to do. *)
ProgressOfRemaining(done, total) == ((total - done) * 100) \div total

(* progress = int((completed_targets / total_targets) * 100) *)
ProgressOf(done, total) == (done * 100) \div total


(* -------------------- JobQueue and ScrapeExecutor ---------------------- *)

(* JobQueue(db, max_concurrent): the constructor's argument, 1 or the     *)
(* default get_job_queue uses.                                            *)
JobInit ==
    /\ max_concurrent \in {1, DefaultMaxConcurrent}
    /\ job = [j \in JobIds |-> NoJob]
    /\ queue = <<>>
    /\ running = {}
    /\ cancelled = [j \in JobIds |-> FALSE]
    /\ wpc = "idle"
    /\ wjob = 0
    /\ widx = 0
    /\ completed_targets = 0
    /\ raised = {}
    /\ missing = {}
    /\ cpc = "idle"
    /\ cjob = 0

Created == { j \in JobIds : job[j].status # "absent" }

(* start_scrape: create_job inserts the queued record, JobQueue.enqueue   *)
(* puts it on the queue. Ids are handed out in order.                     *)
StartScrape(target_ids) ==
    /\ Cardinality(Created) < NJobs
    /\ LET j == Cardinality(Created) + 1 IN
        /\ job' = [job EXCEPT ![j] = create_job(target_ids)]
        /\ queue' = Append(queue, j)
    /\ UNCHANGED <<max_concurrent, running, cancelled, wpc, wjob, widx,
                   completed_targets, raised, missing, cpc, cjob>>
    /\ UNCHANGED NotJobs

(* _worker: queue.get(), the capacity wait, the registration of a fresh   *)
(* executor, and execute_job up to its first await (_cancelled = False).  *)
WorkerAdmit ==
    /\ wpc = "idle"
    /\ queue # <<>>
    /\ Cardinality(running) < max_concurrent
    /\ wjob' = Head(queue)
    /\ queue' = Tail(queue)
    /\ running' = running \cup {Head(queue)}
    /\ cancelled' = [cancelled EXCEPT ![Head(queue)] = FALSE]
    /\ wpc' = "set_running"
    /\ UNCHANGED <<max_concurrent, job, widx, completed_targets, raised,
                   missing, cpc, cjob>>
    /\ UNCHANGED NotJobs

ExecStep(doc, pc) ==
    /\ job' = [job EXCEPT ![wjob] = doc]
    /\ wpc' = pc
    /\ UNCHANGED <<max_concurrent, queue, running, cancelled, wjob, cpc, cjob>>
    /\ UNCHANGED NotJobs

(* execute_job: update_job_status(job.id, "running"). *)
ExecSetRunning ==
    /\ wpc = "set_running"
    /\ ExecStep(update_job_status(job[wjob], "running"), "setup")
    /\ UNCHANGED <<widx, completed_targets, raised, missing>>

(* async with SentimatrixService(...): the client is initialised, or the  *)
(* initialisation raises and the outer handler takes over.                *)
ExecSetup ==
    /\ wpc = "setup"
    /\ \E ok \in BOOLEAN :
        /\ ExecStep(job[wjob], IF ok THEN "loop" ELSE "fail_job")
        /\ widx' = IF ok THEN 1 ELSE widx
        /\ completed_targets' = IF ok THEN 0 ELSE completed_targets
    /\ UNCHANGED <<raised, missing>>

(* The job object handed to execute_job is the one create_job returned:   *)
(* its targets list is the created one.                                    *)
TargetCount == Len(job[wjob].targets)
CurrentTarget == job[wjob].targets[widx].target_id

(* Top of the for loop with _cancelled set: the job is marked cancelled.  *)
ExecCancelled ==
    /\ wpc = "loop"
    /\ widx <= TargetCount
    /\ cancelled[wjob]
    /\ ExecStep(update_job_status(job[wjob], "cancelled"), "finish")
    /\ UNCHANGED <<widx, completed_targets, raised, missing>>

(* Top of the for loop otherwise: the target is marked running. *)
ExecTargetStart ==
    /\ wpc = "loop"
    /\ widx <= TargetCount
    /\ ~cancelled[wjob]
    /\ ExecStep(update_target_status(job[wjob], CurrentTarget, "running"),
                "get_target")
    /\ UNCHANGED <<widx, completed_targets, raised, missing>>

(* _get_target: the target document exists or not. *)
ExecGetTarget ==
    /\ wpc = "get_target"
    /\ \E found \in BOOLEAN :
        /\ ExecStep(job[wjob], IF found THEN "scrape" ELSE "nf_mark")
        /\ missing' = IF found THEN missing ELSE missing \cup {widx}
    /\ UNCHANGED <<widx, completed_targets, raised>>

(* Target not found: marked failed ... *)
ExecNotFoundMark ==
    /\ wpc = "nf_mark"
    /\ ExecStep(update_target_status(job[wjob], CurrentTarget, "failed"),
                "nf_inc")
    /\ UNCHANGED <<widx, completed_targets, raised, missing>>

(* ... errors_count incremented, and `continue`: the next iteration       *)
(* starts without the progress update and without the sleep.              *)
ExecNotFoundInc ==
    /\ wpc = "nf_inc"
    /\ ExecStep(increment_stats(job[wjob], "errors_count"), "loop")
    /\ widx' = widx + 1
    /\ UNCHANGED <<completed_targets, raised, missing>>

(* _scrape_and_analyze_target returns a count or raises. *)
ExecScrape ==
    /\ wpc = "scrape"
    /\ \E ok \in BOOLEAN :
        /\ ExecStep(job[wjob], IF ok THEN "mark_done" ELSE "exc_mark")
        /\ raised' = IF ok THEN raised ELSE raised \cup {widx}
    /\ UNCHANGED <<widx, completed_targets, missing>>

ExecMarkDone ==
    /\ wpc = "mark_done"
    /\ ExecStep(update_target_status(job[wjob], CurrentTarget, "completed"),
                "inc_stats")
    /\ UNCHANGED <<widx, completed_targets, raised, missing>>

(* increment_stats targets_completed, then results_total. *)
ExecIncStats ==
    /\ wpc = "inc_stats"
    /\ ExecStep(increment_stats(job[wjob], "targets_completed"), "progress")
    /\ UNCHANGED <<widx, completed_targets, raised, missing>>

(* except Exception in the loop body: the target is marked failed ... *)
ExecExcMark ==
    /\ wpc = "exc_mark"
    /\ ExecStep(update_target_status(job[wjob], CurrentTarget, "failed"),
                "exc_inc")
    /\ UNCHANGED <<widx, completed_targets, raised, missing>>

(* A slip: the failure is not counted. *)
ExecExcIncUncounted ==
    /\ wpc = "exc_inc"
    /\ ExecStep(job[wjob], "progress")
    /\ UNCHANGED <<widx, completed_targets, raised, missing>>

(* ... and errors_count incremented. *)
ExecExcInc ==
    /\ wpc = "exc_inc"
    /\ ExecStep(increment_stats(job[wjob], "errors_count"), "progress")
    /\ UNCHANGED <<widx, completed_targets, raised, missing>>

(* completed_targets += 1; update_job_progress. *)
ExecProgress ==
    /\ wpc = "progress"
    /\ completed_targets' = completed_targets + 1
    /\ ExecStep(update_job_progress(job[wjob],
                    ProgressOf(completed_targets + 1, TargetCount)), "sleep")
    /\ UNCHANGED <<widx, raised, missing>>

(* asyncio.sleep(rate_limit_delay), then the next iteration. *)
ExecSleep ==
    /\ wpc = "sleep"
    /\ ExecStep(job[wjob], "loop")
    /\ widx' = widx + 1
    /\ UNCHANGED <<completed_targets, raised, missing>>

(* A slip: execute_job returns without the final status update. *)
ExecCompleteNoStatus ==
    /\ wpc = "loop"
    /\ widx > TargetCount
    /\ ExecStep(job[wjob], "finish")
    /\ UNCHANGED <<widx, completed_targets, raised, missing>>

(* The loop is exhausted: update_job_status(job.id, "completed"). *)
ExecComplete ==
    /\ wpc = "loop"
    /\ widx > TargetCount
    /\ ExecStep(update_job_status(job[wjob], "completed"), "finish")
    /\ UNCHANGED <<widx, completed_targets, raised, missing>>

(* Outer except: update_job_status(job.id, "failed", ...) and re-raise. *)
ExecFailJob ==
    /\ wpc = "fail_job"
    /\ ExecStep(update_job_status(job[wjob], "failed"), "raised")
    /\ UNCHANGED <<widx, completed_targets, raised, missing>>

(* A slip: an exception out of execute_job ends the dispatch loop. *)
WorkerFinishOrCrash ==
    /\ wpc \in {"finish", "raised"}
    /\ running' = running \ {wjob}
    /\ wpc' = IF wpc = "raised" THEN "stopped" ELSE "idle"
    /\ wjob' = 0
    /\ widx' = 0
    /\ completed_targets' = 0
    /\ raised' = {}
    /\ missing' = {}
    /\ cancelled' = [cancelled EXCEPT ![wjob] = FALSE]
    /\ UNCHANGED <<max_concurrent, job, queue, cpc, cjob>>
    /\ UNCHANGED NotJobs

(* _worker, finally: del self._running[job.id]; the loop goes on (an      *)
(* exception out of execute_job is logged).                                *)
WorkerFinish ==
    /\ wpc \in {"finish", "raised"}
    /\ running' = running \ {wjob}
    /\ wpc' = "idle"
    /\ wjob' = 0
    /\ widx' = 0
    /\ completed_targets' = 0
    /\ raised' = {}
    /\ missing' = {}
    /\ cancelled' = [cancelled EXCEPT ![wjob] = FALSE]
    /\ UNCHANGED <<max_concurrent, job, queue, cpc, cjob>>
    /\ UNCHANGED NotJobs

(* JobQueue.stop: the worker task is cancelled at the await it is at;     *)
(* CancelledError is no Exception, so only the finally clause runs.       *)
Stop ==
    /\ wpc # "stopped"
    /\ running' = running \ {wjob}
    /\ wpc' = "stopped"
    /\ wjob' = 0
    /\ widx' = 0
    /\ completed_targets' = 0
    /\ raised' = {}
    /\ missing' = {}
    /\ cancelled' = [j \in JobIds |-> FALSE]
    /\ UNCHANGED <<max_concurrent, job, queue, cpc, cjob>>
    /\ UNCHANGED NotJobs

(* JobQueue.cancel_job: sets the executor's flag when the job is active   *)
(* (and returns True), else does nothing (and returns False).             *)
QueueCancelJob(j) ==
    cancelled' = IF j \in running THEN [cancelled EXCEPT ![j] = TRUE]
                 ELSE cancelled

(* cancel_scrape_job: job_queue.cancel_job(job_id) ... *)
CancelRequest(j) ==
    /\ cpc = "idle"
    /\ j \in Created
    /\ QueueCancelJob(j)
    /\ cpc' = "read"
    /\ cjob' = j
    /\ UNCHANGED <<max_concurrent, job, queue, running, wpc, wjob, widx,
                   completed_targets, raised, missing>>
    /\ UNCHANGED NotJobs

(* ... ScrapeJobRepository.cancel_job: get_job and the status test ... *)
CancelRead ==
    /\ cpc = "read"
    /\ IF job[cjob].status \in {"queued", "running"}
       THEN cpc' = "write" /\ cjob' = cjob
       ELSE cpc' = "idle" /\ cjob' = 0
    /\ UNCHANGED <<max_concurrent, job, queue, running, cancelled, wpc, wjob,
                   widx, completed_targets, raised, missing>>
    /\ UNCHANGED NotJobs

(* ... and update_job_status(job_id, "cancelled"). *)
CancelWrite ==
    /\ cpc = "write"
    /\ job' = [job EXCEPT ![cjob] = update_job_status(job[cjob], "cancelled")]
    /\ cpc' = "idle"
    /\ cjob' = 0
    /\ UNCHANGED <<max_concurrent, queue, running, cancelled, wpc, wjob, widx,
                   completed_targets, raised, missing>>
    /\ UNCHANGED NotJobs

(* The steps of the _worker coroutine and of the execute_job it awaits,   *)
(* but for the one that finds _cancelled set.                             *)
ExecRunNext ==
    \/ WorkerAdmit
    \/ ExecSetRunning
    \/ ExecSetup
    \/ ExecTargetStart
    \/ ExecGetTarget
    \/ ExecNotFoundMark
    \/ ExecNotFoundInc
    \/ ExecScrape
    \/ ExecMarkDone
    \/ ExecIncStats
    \/ ExecExcMark
    \/ ExecExcInc
    \/ ExecProgress
    \/ ExecSleep
    \/ ExecComplete
    \/ ExecFailJob
    \/ WorkerFinish

ExecNext ==
    \/ ExecRunNext
    \/ ExecCancelled

(* The steps of a cancel_scrape_job request. *)
CancelNext ==
    \/ \E j \in JobIds : CancelRequest(j)
    \/ CancelRead
    \/ CancelWrite

JobNext ==
    \/ \E t \in DistinctTargetLists : StartScrape(t)
    \/ ExecNext
    \/ CancelNext

(* Jobs of up to RunTargets targets. *)
RunTargetLists == { [i \in 1..n |-> i] : n \in 1..RunTargets }

(* No cancellation is requested and the queue is not stopped. *)
JobRunNext ==
    \/ \E t \in RunTargetLists : StartScrape(t)
    \/ ExecRunNext

(* Jobs of any accepted target list, repeated ids included; no          *)
(* cancellation is requested and the queue is not stopped.                *)
JobAnyListNext ==
    \/ \E t \in TargetLists : StartScrape(t)
    \/ ExecRunNext

(* One job, with cancellation and stop(). *)
OneJobNext ==
    \/ \E t \in RunTargetLists : (Created = {} /\ StartScrape(t))
    \/ ExecNext
    \/ CancelNext
    \/ Stop

(* --------------------------- schedule store ---------------------------- *)
(* One schedule document, with one update request (PUT), one toggle       *)
(* request and one record_execution call in flight at a time. Its         *)
(* next_run is "null" or "future" (an instant later than now).            *)

RetryValues == 0..MaxRetriesBound

NoSchedule == [exists |-> FALSE, enabled |-> FALSE, max_retries |-> 0,
               next_run |-> "null", last_status |-> "null",
               consecutive_failures |-> 0]

NoDict == [x \in {} |-> 0]

(* $set: the fields of the update replace those of the document. *)
SetFields(doc, update) ==
    [f \in DOMAIN doc |-> IF f \in DOMAIN update THEN update[f] ELSE doc[f]]

(* _calculate_next_run returns an instant later than now. *)
calculate_next_run == "future"

(* ScheduleCreate: enabled and max_retries (ge=0, le=10); the frequency   *)
(* fields only feed _calculate_next_run.                                   *)
ScheduleCreate == [enabled : BOOLEAN, max_retries : RetryValues]

(* ScheduleRepository.create_schedule: the inserted document. *)
create_schedule(data) ==
    [exists |-> TRUE, enabled |-> data.enabled, max_retries |-> data.max_retries,
     next_run |-> IF data.enabled THEN calculate_next_run ELSE "null",
     last_status |-> "null", consecutive_failures |-> 0]

(* ScheduleUpdate after model_dump(exclude_none=True): any non-empty      *)
(* subset of enabled, the timing fields (frequency, time, day_of_week,    *)
(* day_of_month, timezone: "timing" when one is given) and max_retries;   *)
(* an empty one returns the schedule as it is.                            *)
ScheduleUpdate ==
    { e @@ t @@ m :
        e \in {NoDict} \cup { [enabled |-> b] : b \in BOOLEAN },
        t \in {NoDict, [timing |-> TRUE]},
        m \in {NoDict} \cup { [max_retries |-> r] : r \in RetryValues } }
    \ {NoDict}

(* update_schedule, from the schedule it read: update_dict with next_run  *)
(* recalculated when enabled or a timing field is given.                   *)
update_dict(doc, data) ==
    LET given == [f \in DOMAIN data \ {"timing"} |-> data[f]]
        enabled == IF "enabled" \in DOMAIN data THEN data.enabled ELSE doc.enabled
    IN  IF DOMAIN data \cap {"enabled", "timing"} # {}
        THEN given @@ [next_run |-> IF enabled THEN calculate_next_run ELSE "null"]
        ELSE given

(* A slip: the retry counter is not reset by a completed execution. *)
record_execution_update_no_reset(doc, status) ==
    [last_status |-> status] @@
    CASE status = "completed" -> [next_run |-> calculate_next_run]
      [] status = "failed" ->
            IF doc.consecutive_failures + 1 >= doc.max_retries
            THEN [consecutive_failures |-> doc.consecutive_failures + 1,
                  enabled |-> FALSE, next_run |-> "null"]
            ELSE [consecutive_failures |-> doc.consecutive_failures + 1,
                  next_run |-> "future"]
      [] OTHER -> NoDict

(* record_execution, from the schedule it read: the update document. *)
record_execution_update(doc, status) ==
    [last_status |-> status] @@
    CASE status = "completed" ->
            [consecutive_failures |-> 0, next_run |-> calculate_next_run]
      [] status = "failed" ->
            IF doc.consecutive_failures + 1 >= doc.max_retries
            THEN [consecutive_failures |-> doc.consecutive_failures + 1,
                  enabled |-> FALSE, next_run |-> "null"]
            ELSE [consecutive_failures |-> doc.consecutive_failures + 1,
                  next_run |-> "future"]   \* now + 5 minutes
      [] OTHER -> NoDict

(* The create_schedule requests in flight together. *)
Creators == {1, 2}

SchedInit ==
    /\ schedule = NoSchedule
    /\ schedule_docs = 0
    /\ cr_pc = [c \in Creators |-> "idle"]
    /\ failed_since_completed = 0
    /\ put_pc = "idle"
    /\ put_dict = NoDict
    /\ tog_pc = "idle"
    /\ tog_dict = NoDict
    /\ rpc = "idle"
    /\ rstatus = "null"
    /\ rupdate = NoDict

(* POST /schedules, create_schedule: find_one finds no schedule of the    *)
(* project (one found: the request ends with 400) ...                     *)
CreateFind(c) ==
    /\ cr_pc[c] = "idle"
    /\ schedule_docs = 0
    /\ cr_pc' = [cr_pc EXCEPT ![c] = "insert"]
    /\ UNCHANGED <<schedule, schedule_docs, failed_since_completed, put_pc,
                   put_dict, tog_pc, tog_dict, rpc, rstatus, rupdate>>
    /\ UNCHANGED NotSched

(* ... and insert_one. *)
CreateSchedule(c, data) ==
    /\ cr_pc[c] = "insert"
    /\ schedule_docs' = schedule_docs + 1
    /\ schedule' = IF schedule.exists THEN schedule ELSE create_schedule(data)
    /\ cr_pc' = [cr_pc EXCEPT ![c] = "idle"]
    /\ UNCHANGED <<failed_since_completed, put_pc, put_dict, tog_pc, tog_dict,
                   rpc, rstatus, rupdate>>
    /\ UNCHANGED NotSched

(* PUT /schedules/project/{id}, update_schedule: get_schedule, and        *)
(* update_dict built from the schedule read ...                           *)
PutRead(data) ==
    /\ put_pc = "idle"
    /\ schedule.exists
    /\ put_dict' = update_dict(schedule, data)
    /\ put_pc' = "write"
    /\ UNCHANGED <<schedule, failed_since_completed, tog_pc, tog_dict, rpc,
                   rstatus, rupdate>>
    /\ UNCHANGED createVars
    /\ UNCHANGED NotSched

(* ... and find_one_and_update($set update_dict). *)
PutWrite ==
    /\ put_pc = "write"
    /\ schedule' = SetFields(schedule, put_dict)
    /\ put_pc' = "idle"
    /\ put_dict' = NoDict
    /\ UNCHANGED <<failed_since_completed, tog_pc, tog_dict, rpc, rstatus, rupdate>>
    /\ UNCHANGED createVars
    /\ UNCHANGED NotSched

(* toggle_schedule: get_schedule, giving ScheduleUpdate(enabled = not     *)
(* schedule.enabled) ...                                                   *)
ToggleGet ==
    /\ tog_pc = "idle"
    /\ schedule.exists
    /\ tog_dict' = [enabled |-> ~schedule.enabled]
    /\ tog_pc' = "read"
    /\ UNCHANGED <<schedule, failed_since_completed, put_pc, put_dict, rpc,
                   rstatus, rupdate>>
    /\ UNCHANGED createVars
    /\ UNCHANGED NotSched

(* ... update_schedule: get_schedule again and update_dict ... *)
ToggleRead ==
    /\ tog_pc = "read"
    /\ tog_dict' = update_dict(schedule, tog_dict)
    /\ tog_pc' = "write"
    /\ UNCHANGED <<schedule, failed_since_completed, put_pc, put_dict, rpc,
                   rstatus, rupdate>>
    /\ UNCHANGED createVars
    /\ UNCHANGED NotSched

(* ... and find_one_and_update($set update_dict). *)
ToggleWrite ==
    /\ tog_pc = "write"
    /\ schedule' = SetFields(schedule, tog_dict)
    /\ tog_pc' = "idle"
    /\ tog_dict' = NoDict
    /\ UNCHANGED <<failed_since_completed, put_pc, put_dict, rpc, rstatus, rupdate>>
    /\ UNCHANGED createVars
    /\ UNCHANGED NotSched

ExecutionStatus == {"running", "completed", "failed", "skipped"}

(* record_execution(schedule_id, job_id, status): the execution record is *)
(* inserted, the schedule read and the update built. One call at a time:  *)
(* the polling task is the only caller.                                   *)
RecordRead(status) ==
    /\ rpc = "idle"
    /\ schedule.exists
    /\ status = "failed" => schedule.consecutive_failures < MaxFailures
    /\ rupdate' = record_execution_update(schedule, status)
    /\ rstatus' = status
    /\ rpc' = "write"
    /\ UNCHANGED <<schedule, failed_since_completed, put_pc, put_dict, tog_pc,
                   tog_dict>>
    /\ UNCHANGED createVars
    /\ UNCHANGED NotSched

(* record_execution: update_one($set update). *)
RecordWrite ==
    /\ rpc = "write"
    /\ schedule' = SetFields(schedule, rupdate)
    /\ failed_since_completed' =
            CASE rstatus = "completed" -> 0
              [] rstatus = "failed" -> failed_since_completed + 1
              [] OTHER -> failed_since_completed
    /\ rpc' = "idle"
    /\ rstatus' = "null"
    /\ rupdate' = NoDict
    /\ UNCHANGED <<put_pc, put_dict, tog_pc, tog_dict>>
    /\ UNCHANGED createVars
    /\ UNCHANGED NotSched

SchedNext ==
    \/ \E c \in Creators : CreateFind(c)
    \/ \E c \in Creators, data \in ScheduleCreate : CreateSchedule(c, data)
    \/ \E data \in ScheduleUpdate : PutRead(data)
    \/ PutWrite
    \/ ToggleGet
    \/ ToggleRead
    \/ ToggleWrite
    \/ \E st \in ExecutionStatus : RecordRead(st)
    \/ RecordWrite

(* ---------------------------- webhook store ---------------------------- *)
(* One webhook document, with deliveries to it in flight together (one    *)
(* per trigger_event that selected it) and one toggle request.            *)

Deliverers == 1..NDeliveries

(* deliver_webhook: status_code is None when no response came (timeout,   *)
(* connection error), else the response's status.                          *)
NoStatusCode == 0
StatusCodes == {200, 300}

NoWebhook == [exists |-> FALSE, enabled |-> FALSE, last_status |-> NoStatusCode,
              consecutive_failures |-> 0]

(* WebhookRepository.create_webhook: the inserted document. *)
create_webhook(enabled) ==
    [exists |-> TRUE, enabled |-> enabled, last_status |-> NoStatusCode,
     consecutive_failures |-> 0]

(* record_delivery: success. *)
delivery_success(status_code) ==
    status_code # NoStatusCode /\ 200 <= status_code /\ status_code < 300

(* record_delivery: the update document before the webhook is read;       *)
(* inc stands for $inc consecutive_failures.                               *)
record_delivery_update(status_code) ==
    IF delivery_success(status_code)
    THEN [last_status |-> status_code, consecutive_failures |-> 0]
    ELSE [last_status |-> status_code, inc |-> 1]

(* A slip: the webhook is disabled from five failures read on. *)
record_delivery_disable_late(doc, update) ==
    IF doc.exists /\ doc.consecutive_failures >= DisableAfter + 1
    THEN update @@ [enabled |-> FALSE]
    ELSE update

(* record_delivery, failure path: the update document after find_one. *)
record_delivery_disable(doc, update) ==
    IF doc.exists /\ doc.consecutive_failures >= DisableAfter
    THEN update @@ [enabled |-> FALSE]
    ELSE update

(* update_one($set update, $inc inc_update). *)
apply_delivery_update(doc, update) ==
    LET set == SetFields(doc, update)
    IN  IF "inc" \in DOMAIN update
        THEN [set EXCEPT !.consecutive_failures = @ + update.inc]
        ELSE set

HookInit ==
    /\ webhook = NoWebhook
    /\ deliveries = 0
    /\ dpc = [d \in Deliverers |-> "idle"]
    /\ dupdate = [d \in Deliverers |-> NoDict]
    /\ htog_pc = "idle"
    /\ htog_enabled = FALSE

(* POST /webhooks: create_webhook. *)
CreateWebhook(enabled) ==
    /\ ~webhook.exists
    /\ webhook' = create_webhook(enabled)
    /\ UNCHANGED <<deliveries, dpc, dupdate, htog_pc, htog_enabled>>
    /\ UNCHANGED NotHooks

(* PUT /webhooks/{id}, update_webhook with enabled given: one             *)
(* find_one_and_update.                                                    *)
UpdateWebhook(enabled) ==
    /\ webhook.exists
    /\ webhook' = [webhook EXCEPT !.enabled = enabled]
    /\ UNCHANGED <<deliveries, dpc, dupdate, htog_pc, htog_enabled>>
    /\ UNCHANGED NotHooks

(* toggle_webhook: get_webhook ... *)
HookToggleGet ==
    /\ htog_pc = "idle"
    /\ webhook.exists
    /\ htog_enabled' = ~webhook.enabled
    /\ htog_pc' = "update"
    /\ UNCHANGED <<webhook, deliveries, dpc, dupdate>>
    /\ UNCHANGED NotHooks

(* ... and update_webhook(enabled = not webhook.enabled). *)
HookToggleUpdate ==
    /\ htog_pc = "update"
    /\ webhook' = [webhook EXCEPT !.enabled = htog_enabled]
    /\ htog_pc' = "idle"
    /\ htog_enabled' = FALSE
    /\ UNCHANGED <<deliveries, dpc, dupdate>>
    /\ UNCHANGED NotHooks

(* trigger_event: get_webhooks_for_event selects the webhook when it is   *)
(* enabled, and deliver_webhook sends the POST.                            *)
DeliverStart(d) ==
    /\ dpc[d] = "idle"
    /\ webhook.exists
    /\ webhook.enabled
    /\ deliveries + Cardinality({e \in Deliverers : dpc[e] = "post"}) < MaxDeliveries
    /\ dpc' = [dpc EXCEPT ![d] = "post"]
    /\ UNCHANGED <<webhook, deliveries, dupdate, htog_pc, htog_enabled>>
    /\ UNCHANGED NotHooks

(* deliver_webhook: the POST ends with a status or with none, and         *)
(* record_delivery inserts the delivery document and builds the update.   *)
DeliverPost(d, status_code) ==
    /\ dpc[d] = "post"
    /\ deliveries' = deliveries + 1
    /\ dupdate' = [dupdate EXCEPT ![d] = record_delivery_update(status_code)]
    /\ dpc' = [dpc EXCEPT ![d] = IF delivery_success(status_code)
                                  THEN "update" ELSE "find"]
    /\ UNCHANGED <<webhook, htog_pc, htog_enabled>>
    /\ UNCHANGED NotHooks

(* record_delivery, failure path: find_one, and enabled False joins the   *)
(* update when the webhook read has 4 failures or more.                   *)
RecordFind(d) ==
    /\ dpc[d] = "find"
    /\ dupdate' = [dupdate EXCEPT ![d] = record_delivery_disable(webhook, @)]
    /\ dpc' = [dpc EXCEPT ![d] = "update"]
    /\ UNCHANGED <<webhook, deliveries, htog_pc, htog_enabled>>
    /\ UNCHANGED NotHooks

(* record_delivery: update_one. *)
RecordUpdate(d) ==
    /\ dpc[d] = "update"
    /\ webhook' = apply_delivery_update(webhook, dupdate[d])
    /\ dupdate' = [dupdate EXCEPT ![d] = NoDict]
    /\ dpc' = [dpc EXCEPT ![d] = "idle"]
    /\ UNCHANGED <<deliveries, htog_pc, htog_enabled>>
    /\ UNCHANGED NotHooks

HookNext ==
    \/ \E enabled \in BOOLEAN : CreateWebhook(enabled)
    \/ \E enabled \in BOOLEAN : UpdateWebhook(enabled)
    \/ HookToggleGet
    \/ HookToggleUpdate
    \/ \E d \in Deliverers : DeliverStart(d)
    \/ \E d \in Deliverers, status_code \in StatusCodes \cup {NoStatusCode} :
            DeliverPost(d, status_code)
    \/ \E d \in Deliverers : RecordFind(d)
    \/ \E d \in Deliverers : RecordUpdate(d)

(* ------------------------- _calculate_next_run ------------------------- *)
(* Instants are counted in minutes from 2024-01-01T00:00Z; the clock      *)
(* reading m stands for any instant of minute m (the seconds of now       *)
(* change no comparison with a value whose seconds are 0). Wall-clock      *)
(* values are minutes counted the same way on the local calendar.          *)

CumDaysLeap == <<0, 31, 60, 91, 121, 152, 182, 213, 244, 274, 305, 335>>
CumDaysCommon == <<0, 31, 59, 90, 120, 151, 181, 212, 243, 273, 304, 334>>

(* 2024 is a leap year; 2025 follows it. *)
CumDays(year) == IF year = 2024 THEN CumDaysLeap ELSE CumDaysCommon
DaysBeforeYear(year) == IF year = 2024 THEN 0 ELSE 366

DayNumber(year, month, day) ==
    DaysBeforeYear(year) + CumDays(year)[month] + day - 1

(* The datetime fields of a wall-clock value; 2024-01-01 is a Monday and   *)
(* weekday() counts from Monday = 0.                                       *)
DateTime(wall) ==
    LET n == wall \div 1440
        year == IF n < 366 THEN 2024 ELSE 2025
        r == n - DaysBeforeYear(year)
        month == CHOOSE m \in 1..12 :
                    /\ CumDays(year)[m] <= r
                    /\ (m = 12 \/ CumDays(year)[m + 1] > r)
    IN  [year |-> year, month |-> month, day |-> r - CumDays(year)[month] + 1,
         hour |-> (wall % 1440) \div 60, minute |-> wall % 60,
         weekday |-> n % 7]

(* datetime.replace(...) and back to a wall-clock value. *)
WallOf(year, month, day, hour, minute) ==
    DayNumber(year, month, day) * 1440 + hour * 60 + minute

(* The zones: UTC, a fixed offset with a half hour (Asia/Kolkata), and one *)
(* with daylight saving time (America/New_York: UTC-5, and UTC-4 from      *)
(* 2024-03-10T07:00Z to 2024-11-03T06:00Z).                                *)
Zones == {"UTC", "Asia/Kolkata", "America/New_York"}

DstStart == WallOf(2024, 3, 10, 7, 0)
DstEnd == WallOf(2024, 11, 3, 6, 0)

(* utcoffset, in minutes, of the zone at UTC minute m. *)
OffsetAt(zone, m) ==
    CASE zone = "UTC" -> 0
      [] zone = "Asia/Kolkata" -> 330
      [] zone = "America/New_York" ->
            IF DstStart <= m /\ m < DstEnd THEN 0 - 240 ELSE 0 - 300

Offsets(zone) ==
    CASE zone = "UTC" -> {0}
      [] zone = "Asia/Kolkata" -> {330}
      [] zone = "America/New_York" -> {0 - 240, 0 - 300}

(* schedule_time None and "HH:MM": hour, minute = map(int, split(":")),    *)
(* 9:00 by default.                                                        *)
NoTime == <<>>
parse_time(schedule_time) ==
    IF schedule_time = NoTime THEN <<9, 0>> ELSE schedule_time

(* day_of_week and day_of_month None. *)
NoDay == 0 - 1

Frequencies == {"hourly", "daily", "weekly", "monthly"}

(* The body of _calculate_next_run, with now the clock it reads. *)
calculate_next_run_from(frequency, schedule_time, day_of_week, day_of_month, tz_name, now) ==
    LET off == OffsetAt(tz_name, now)
        wall == now + off                       \* datetime.now(tz)
        dt == DateTime(wall)
        hour == parse_time(schedule_time)[1]
        minute == parse_time(schedule_time)[2]
        at_time == WallOf(dt.year, dt.month, dt.day, hour, minute)
        next_run ==
            CASE frequency = "hourly" -> (wall - dt.minute) + 60
              [] frequency = "daily" ->
                    IF at_time <= wall THEN at_time + 1440 ELSE at_time
              [] frequency = "weekly" ->
                    LET target_day == IF day_of_week # NoDay THEN day_of_week ELSE 0
                        d0 == target_day - dt.weekday
                        days_ahead ==
                            IF d0 < 0 \/ (d0 = 0 /\ dt.hour * 60 + dt.minute
                                                      >= hour * 60 + minute)
                            THEN d0 + 7 ELSE d0
                    IN  at_time + days_ahead * 1440
              [] frequency = "monthly" ->
                    LET target_day == IF day_of_month # NoDay THEN day_of_month ELSE 1
                        this_month == WallOf(dt.year, dt.month, target_day, hour, minute)
                    IN  IF this_month <= wall
                        THEN IF dt.month = 12
                             THEN WallOf(dt.year + 1, 1, target_day, hour, minute)
                             ELSE WallOf(dt.year, dt.month + 1, target_day, hour, minute)
                        ELSE this_month
              [] OTHER -> wall + 1440
    (* astimezone(pytz.UTC): the tzinfo next_run carries is the one now    *)
    (* was given, with the offset in force at now.                          *)
    IN  next_run - off

(* The arguments ScheduleCreate validates (time HH:MM, day_of_week 0..6,  *)
(* day_of_month 1..28), sampled, and the clock readings.                   *)
Times == {NoTime, <<0, 0>>, <<9, 0>>, <<14, 30>>, <<23, 59>>}
DaysOfWeek == {NoDay} \cup (0..6)
DaysOfMonth == {NoDay, 1, 10, 28}

Nows ==
    { WallOf(2024, month, day, hour, minute) :
        month \in {1, 3, 12}, day \in {9, 10, 28, 31},
        hour \in {3, 9, 14, 23}, minute \in {0, 30} }

CalcInputs ==
    [frequency : {"hourly"}, time : {NoTime}, day_of_week : {NoDay},
     day_of_month : {NoDay}, tz : Zones, now : Nows]
    \cup [frequency : {"daily"}, time : Times, day_of_week : {NoDay},
          day_of_month : {NoDay}, tz : Zones, now : Nows]
    \cup [frequency : {"weekly"}, time : Times, day_of_week : DaysOfWeek,
          day_of_month : {NoDay}, tz : Zones, now : Nows]
    \cup [frequency : {"monthly"}, time : Times, day_of_week : {NoDay},
          day_of_month : DaysOfMonth, tz : Zones, now : Nows]

NoCall == [frequency |-> "daily", time |-> NoTime, day_of_week |-> NoDay,
           day_of_month |-> NoDay, tz |-> "UTC", now |-> 0]

NoInstant == 0 - 1

(* No call of _calculate_next_run is under way. *)
CalcIdle ==
    /\ calc_pc = "off"
    /\ calc_in = NoCall
    /\ calc_out = NoInstant

(* A call with its arguments, the clock at some reading. *)
CalcInit ==
    /\ calc_pc = "ready"
    /\ calc_in \in CalcInputs
    /\ calc_out = NoInstant

Calculate ==
    /\ calc_pc = "ready"
    /\ calc_out' = calculate_next_run_from(calc_in.frequency, calc_in.time,
                        calc_in.day_of_week, calc_in.day_of_month,
                        calc_in.tz, calc_in.now)
    /\ calc_pc' = "done"
    /\ UNCHANGED calc_in
    /\ UNCHANGED NotCalc

(* ------------------------------ trigger_event -------------------------- *)
(* One trigger_event call over a collection of webhooks that have had no  *)
(* delivery yet; the collection is not updated by anyone else meanwhile.  *)

WebhookIds == 1..NHooks
UserIds == {"u1", "u2"}
EventNames == {"job.completed", "job.failed"}
NoProject == "none"
ProjectIds == {"p1", "p2"}

WebhookDocs ==
    [exists : {TRUE}, enabled : BOOLEAN, user_id : UserIds,
     events : (SUBSET EventNames) \ {{}},
     project_id : ProjectIds \cup {NoProject},
     last_status : {NoStatusCode}, consecutive_failures : {0}]

(* A slip: the query does not ask for enabled webhooks. *)
get_webhooks_for_any_state(docs, user_id, event, project_id) ==
    { h \in DOMAIN docs :
        /\ docs[h].user_id = user_id
        /\ event \in docs[h].events
        /\ IF project_id # NoProject
           THEN docs[h].project_id \in {project_id, NoProject}
           ELSE docs[h].project_id = NoProject }

(* get_webhooks_for_event: the documents the query matches. *)
get_webhooks_for_event(docs, user_id, event, project_id) ==
    { h \in DOMAIN docs :
        /\ docs[h].user_id = user_id
        /\ docs[h].enabled = TRUE
        /\ event \in docs[h].events
        /\ IF project_id # NoProject
           THEN docs[h].project_id \in {project_id, NoProject}
           ELSE docs[h].project_id = NoProject }

(* No trigger_event call is under way. *)
TrigIdle ==
    /\ hooks = <<>>
    /\ trig_pc = "off"
    /\ trig_args = [user_id |-> "u1", event |-> "job.completed",
                    project_id |-> NoProject]
    /\ trig_sel = {}
    /\ posted = {}
    /\ trig_result = <<>>
    /\ trig_ret = 0

(* A call for an event of user u1's, with or without a project. *)
TrigInit ==
    /\ hooks \in [WebhookIds -> WebhookDocs]
    /\ trig_pc = "ready"
    /\ trig_args \in [user_id : {"u1"}, event : {"job.completed"},
                      project_id : {NoProject, "p1"}]
    /\ trig_sel = {}
    /\ posted = {}
    /\ trig_result = [h \in WebhookIds |-> "none"]
    /\ trig_ret = 0

(* trigger_event: get_webhooks_for_event; with no webhook it returns 0,   *)
(* else one deliver_webhook task per webhook is handed to gather.         *)
TriggerEvent ==
    /\ trig_pc = "ready"
    /\ LET webhooks == get_webhooks_for_event(hooks, trig_args.user_id,
                            trig_args.event, trig_args.project_id)
       IN  /\ trig_sel' = webhooks
           /\ trig_pc' = IF webhooks = {} THEN "returned" ELSE "gather"
           /\ trig_result' = [h \in WebhookIds |->
                                IF h \in webhooks THEN "pending" ELSE "none"]
    /\ trig_ret' = 0
    /\ UNCHANGED <<hooks, trig_args, posted>>
    /\ UNCHANGED NotTrig

(* A deliver_webhook task: the POST ends with a status or with none       *)
(* (timeout, connection error), and record_delivery records it or raises; *)
(* the task's result is the success flag or the exception.                *)
DeliverTo(h, status_code, recorded) ==
    /\ trig_pc = "gather"
    /\ trig_result[h] = "pending"
    /\ posted' = posted \cup {h}
    /\ hooks' = IF recorded
                THEN [hooks EXCEPT ![h] = apply_delivery_update(@,
                        IF delivery_success(status_code)
                        THEN record_delivery_update(status_code)
                        ELSE record_delivery_disable(@,
                                record_delivery_update(status_code)))]
                ELSE hooks
    /\ trig_result' = [trig_result EXCEPT ![h] =
                         IF ~recorded THEN "exception"
                         ELSE IF delivery_success(status_code) THEN "true"
                         ELSE "false"]
    /\ UNCHANGED <<trig_pc, trig_args, trig_sel, trig_ret>>
    /\ UNCHANGED NotTrig

(* A slip: gather hands the exception of a task on to trigger_event. *)
TriggerReturnOrRaise ==
    /\ trig_pc = "gather"
    /\ \A h \in trig_sel : trig_result[h] # "pending"
    /\ trig_pc' = IF \E h \in trig_sel : trig_result[h] = "exception"
                  THEN "raised" ELSE "returned"
    /\ trig_ret' = Cardinality(trig_sel)
    /\ UNCHANGED <<hooks, trig_args, trig_sel, posted, trig_result>>
    /\ UNCHANGED NotTrig

(* gather with return_exceptions=True ends when every task has, and      *)
(* trigger_event returns len(webhooks).                                   *)
TriggerReturn ==
    /\ trig_pc = "gather"
    /\ \A h \in trig_sel : trig_result[h] # "pending"
    /\ trig_pc' = "returned"
    /\ trig_ret' = Cardinality(trig_sel)
    /\ UNCHANGED <<hooks, trig_args, trig_sel, posted, trig_result>>
    /\ UNCHANGED NotTrig

TrigNext ==
    \/ TriggerEvent
    \/ \E h \in WebhookIds, status_code \in StatusCodes \cup {NoStatusCode},
          recorded \in BOOLEAN : DeliverTo(h, status_code, recorded)
    \/ TriggerReturn

(* --------------------- deliver_webhook: the request -------------------- *)
(* The request deliver_webhook builds: the payload serialized once, the   *)
(* headers, the signature.                                                *)

NoSecret == "None"
Secrets == {NoSecret, "", "s1", "s2"}
SignatureHeader == "X-Webhook-Signature"
HeaderNames == {SignatureHeader, "x-webhook-signature", "X-Custom"}
(* A header value of the webhook's own: "sha256=" and some other digest. *)
HeaderValues == {<<"sha256=", <<"0000">>>>}
Payloads == {"results", "error"}

(* The dicts a webhook's headers field can hold. *)
HeaderDicts == UNION { [names -> HeaderValues] : names \in SUBSET HeaderNames }

(* str.encode(): the UTF-8 bytes of a string. *)
Encode(str) == <<"utf-8", str>>

(* hmac.new(key, msg, hashlib.sha256).hexdigest() *)
HmacSha256Hex(key, msg) == <<"hmac-sha256", key, msg>>

(* _sign_payload *)
sign_payload(payload, secret) == HmacSha256Hex(Encode(secret), Encode(payload))

(* json.dumps of {"event", "timestamp", "data"}, the keys in that order. *)
json_dumps(event, timestamp, data) ==
    <<"event", event, "timestamp", timestamp, "data", data>>

(* if webhook.secret: neither None nor the empty string. *)
HasSecret(secret) == secret \notin {NoSecret, ""}

(* A slip: the webhook's headers are laid over the signature. *)
build_headers_custom_last(event, custom, secret, payload_json) ==
    LET headers == [name \in {"Content-Type", "User-Agent", "X-Webhook-Event"} |->
                      CASE name = "Content-Type" -> "application/json"
                        [] name = "User-Agent" -> "SentimatrixStudio/1.0"
                        [] OTHER -> event]
        signed == IF HasSecret(secret)
                  THEN (SignatureHeader :>
                          <<"sha256=", sign_payload(payload_json, secret)>>)
                       @@ headers
                  ELSE headers
    IN  custom @@ signed

(* The headers dict: the fixed ones, the webhook's own laid over them,    *)
(* then the signature set under its name when a secret is configured.     *)
build_headers(event, custom, secret, payload_json) ==
    LET headers == custom @@
                   [name \in {"Content-Type", "User-Agent", "X-Webhook-Event"} |->
                      CASE name = "Content-Type" -> "application/json"
                        [] name = "User-Agent" -> "SentimatrixStudio/1.0"
                        [] OTHER -> event]
    IN  IF HasSecret(secret)
        THEN (SignatureHeader :>
                <<"sha256=", sign_payload(payload_json, secret)>>) @@ headers
        ELSE headers

NoRequest == [headers |-> <<>>, content |-> <<>>]

(* No delivery is being built. *)
SignIdle ==
    /\ sign_pc = "off"
    /\ sign_in = [secret |-> NoSecret, headers |-> <<>>,
                  event |-> "job.completed", data |-> "results", now |-> 1]
    /\ request = NoRequest

(* deliver_webhook called for any webhook, event and payload. *)
SignInit ==
    /\ sign_pc = "ready"
    /\ sign_in \in [secret : Secrets, headers : HeaderDicts,
                    event : EventNames, data : Payloads, now : 1..NClock]
    /\ request = NoRequest

(* deliver_webhook up to client.post: the content is the bytes of         *)
(* payload_json, the string that was signed.                              *)
BuildAndPost ==
    /\ sign_pc = "ready"
    /\ LET payload_json == json_dumps(sign_in.event, sign_in.now, sign_in.data)
       IN  request' = [headers |-> build_headers(sign_in.event, sign_in.headers,
                                        sign_in.secret, payload_json),
                       content |-> Encode(payload_json)]
    /\ sign_pc' = "sent"
    /\ UNCHANGED sign_in
    /\ UNCHANGED NotSign

(* ---------------------- _scrape_and_analyze_target --------------------- *)
(* One call: the items with text that were parsed, their batch analysis,  *)
(* and the result documents inserted by _store_result.                    *)

Items == 1..MaxItems

Min(a, b) == IF a <= b THEN a ELSE b

(* The items of scraped_data that have text. *)
WithText(data) == SelectSeq([i \in 1..Len(data) |-> i], LAMBDA i : data[i])

(* No call is under way. *)
StoreIdle ==
    /\ st_pc = "off"
    /\ scraped_data = <<>>
    /\ batch_contents = <<>>
    /\ analyses = 0
    /\ st_idx = 0
    /\ stored = [i \in Items |-> 0]
    /\ results_stored = 0

(* scrape_url has returned any list of items, with or without text. *)
StoreInit ==
    /\ scraped_data \in UNION { [1..n -> BOOLEAN] : n \in 0..MaxItems }
    /\ st_pc = "parse"
    /\ batch_contents = <<>>
    /\ analyses = 0
    /\ st_idx = 0
    /\ stored = [i \in Items |-> 0]
    /\ results_stored = 0

(* No scraped data: return 0. Else the parse loop keeps the items with    *)
(* text; with none of them the function returns 0, else analyze_batch is  *)
(* called.                                                                *)
ParseContents ==
    /\ st_pc = "parse"
    /\ batch_contents' = WithText(scraped_data)
    /\ st_pc' = IF WithText(scraped_data) = <<>> THEN "returned" ELSE "analyze"
    /\ UNCHANGED <<scraped_data, analyses, st_idx, stored, results_stored>>
    /\ UNCHANGED NotStore

(* analyze_batch returns one analysis per text, or none at all when       *)
(* neither sentiment nor emotions is configured, or raises.               *)
AnalyzeBatch ==
    /\ st_pc = "analyze"
    /\ \/ /\ analyses' \in {Len(batch_contents), 0}
          /\ st_pc' = "store"
       \/ /\ analyses' = analyses
          /\ st_pc' = "fallback"
    /\ st_idx' = 1
    /\ UNCHANGED <<scraped_data, batch_contents, stored, results_stored>>
    /\ UNCHANGED NotStore

(* for content, analysis in zip(batch_contents, analyses): _store_result  *)
(* inserts the document, or raises and the except clause takes over.      *)
StoreResult ==
    /\ st_pc = "store"
    /\ st_idx <= Min(Len(batch_contents), analyses)
    /\ \/ /\ stored' = [stored EXCEPT ![batch_contents[st_idx]] = @ + 1]
          /\ results_stored' = results_stored + 1
          /\ st_idx' = st_idx + 1
          /\ st_pc' = "store"
       \/ /\ st_pc' = "fallback"
          /\ st_idx' = 1
          /\ UNCHANGED <<stored, results_stored>>
    /\ UNCHANGED <<scraped_data, batch_contents, analyses>>
    /\ UNCHANGED NotStore

(* except Exception: every content is stored with an empty analysis; a    *)
(* _store_result that raises here ends the function with the exception.   *)
StoreFallback ==
    /\ st_pc = "fallback"
    /\ st_idx <= Len(batch_contents)
    /\ \/ /\ stored' = [stored EXCEPT ![batch_contents[st_idx]] = @ + 1]
          /\ results_stored' = results_stored + 1
          /\ st_idx' = st_idx + 1
          /\ st_pc' = "fallback"
       \/ /\ st_pc' = "raised"
          /\ UNCHANGED <<stored, results_stored, st_idx>>
    /\ UNCHANGED <<scraped_data, batch_contents, analyses>>
    /\ UNCHANGED NotStore

(* return results_stored: the target is then marked completed with it as  *)
(* its results_count.                                                     *)
StoreReturn ==
    /\ \/ st_pc = "store" /\ st_idx > Min(Len(batch_contents), analyses)
       \/ st_pc = "fallback" /\ st_idx > Len(batch_contents)
    /\ st_pc' = "returned"
    /\ UNCHANGED <<scraped_data, batch_contents, analyses, st_idx, stored, results_stored>>
    /\ UNCHANGED NotStore

StoreNext == ParseContents \/ AnalyzeBatch \/ StoreResult \/ StoreFallback \/ StoreReturn

(* ---------------------------- SchedulerService ------------------------- *)
(* The polling task over a collection of schedules, with no API request   *)
(* on the schedules meanwhile. The jobs it creates are counted only.      *)

ScheduleIds == 1..NSchedules

(* Schedule.last_status: the values the model admits (None included). *)
AdmittedLastStatus == {"null", "pending", "completed", "failed"}

(* The schedules as create_schedule left them, some of them due by now. *)
ScheduleDocs ==
    { [exists |-> TRUE, enabled |-> e, max_retries |-> r, next_run |-> n,
       last_run |-> 0, last_status |-> "null", consecutive_failures |-> 0] :
        e \in BOOLEAN, r \in RetryValues, n \in {"null", "due", "future"} }

(* The scheduler is not running. *)
TickIdle ==
    /\ sdocs = <<>>
    /\ tick = 0
    /\ tick_pc = "off"
    /\ due = <<>>
    /\ tick_i = 0
    /\ matched = {}
    /\ attempted = {}
    /\ fired = <<>>
    /\ executions = <<>>
    /\ sched_jobs = <<>>

(* start(): the polling task is about to run its first tick. *)
TickInit ==
    /\ sdocs \in [ScheduleIds -> { d \in ScheduleDocs :
                                     (d.next_run = "null") <=> ~d.enabled }]
    /\ tick = 0
    /\ tick_pc = "sleep"
    /\ due = <<>>
    /\ tick_i = 0
    /\ matched = {}
    /\ attempted = {}
    /\ fired = [s \in ScheduleIds |-> "no"]
    /\ executions = [s \in ScheduleIds |-> 0]
    /\ sched_jobs = [s \in ScheduleIds |-> 0]

(* The ids of a set of schedules as the list the cursor gives. *)
RECURSIVE AsList(_)
AsList(S) ==
    IF S = {} THEN <<>>
    ELSE LET m == CHOOSE x \in S : \A y \in S : x <= y
         IN  <<m>> \o AsList(S \ {m})

(* get_due_schedules: the query. *)
due_query(docs) ==
    { s \in DOMAIN docs : docs[s].enabled = TRUE /\ docs[s].next_run = "due" }

(* During the sleep of the loop the next_run of a schedule passes. *)
TimePasses(s) ==
    /\ tick_pc = "sleep"
    /\ sdocs[s].next_run = "future"
    /\ sdocs' = [sdocs EXCEPT ![s].next_run = "due"]
    /\ UNCHANGED <<tick, tick_pc, due, tick_i, matched, attempted, fired,
                   executions, sched_jobs>>
    /\ UNCHANGED NotTick

(* _process_due_schedules: get_due_schedules. Each matched document is    *)
(* turned into a Schedule; for a last_status the model does not admit     *)
(* the conversion either goes through or raises, and then the tick ends   *)
(* in the handler of _run_loop.                                           *)
TickGetDue ==
    /\ tick_pc = "sleep"
    /\ tick < MaxTicks
    /\ tick' = tick + 1
    /\ matched' = due_query(sdocs)
    /\ attempted' = {}
    /\ tick_i' = 1
    /\ \/ /\ due' = AsList(due_query(sdocs))
          /\ tick_pc' = IF due_query(sdocs) = {} THEN "sleep" ELSE "project"
       \/ /\ \E s \in due_query(sdocs) : sdocs[s].last_status \notin AdmittedLastStatus
          /\ due' = <<>>
          /\ tick_pc' = "sleep"
    /\ UNCHANGED <<sdocs, fired, executions, sched_jobs>>
    /\ UNCHANGED NotTick

CurrentSchedule == due[tick_i]

(* The loop of _process_due_schedules goes to its next schedule, or the   *)
(* tick ends and the task sleeps.                                         *)
NextSchedulePc == IF tick_i + 1 > Len(due) THEN "sleep" ELSE "project"

(* At the end of a tick what was fired in it was fired in an earlier one. *)
FiredAtPc(f, pc) ==
    [s \in DOMAIN f |-> IF pc = "sleep" /\ f[s] = "now" THEN "before" ELSE f[s]]

(* record_execution went through: the execution record is inserted and    *)
(* the schedule updated; the loop goes on.                                *)
Recorded(status) ==
    LET s == CurrentSchedule
        update == record_execution_update(sdocs[s], status) @@ [last_run |-> tick]
        f == [fired EXCEPT ![s] = IF "next_run" \in DOMAIN update THEN "no"
                                   ELSE IF status = "running" THEN "now" ELSE @]
    IN  /\ executions' = [executions EXCEPT ![s] = @ + 1]
        /\ sdocs' = [sdocs EXCEPT ![s] = SetFields(@, update)]
        /\ fired' = FiredAtPc(f, NextSchedulePc)
        /\ tick_pc' = NextSchedulePc
        /\ tick_i' = tick_i + 1
        /\ UNCHANGED <<tick, due, matched, attempted, sched_jobs>>

(* record_execution raised: nothing is written, the exception goes to the *)
(* handler named.                                                         *)
NotRecorded(handler) ==
    /\ tick_pc' = handler
    /\ UNCHANGED <<sdocs, tick, due, tick_i, matched, attempted, fired,
                   executions, sched_jobs>>

(* _execute_schedule: get_project finds the project or raises. *)
ExecGetProject ==
    /\ tick_pc = "project"
    /\ attempted' = attempted \cup {CurrentSchedule}
    /\ \E found \in BOOLEAN :
          tick_pc' = IF found THEN "create" ELSE "record_skipped"
    /\ UNCHANGED <<sdocs, tick, due, tick_i, matched, fired, executions, sched_jobs>>
    /\ UNCHANGED NotTick

(* Project not found: record_execution(status="skipped") and return. *)
RecordSkipped ==
    /\ tick_pc = "record_skipped"
    /\ Recorded("skipped") \/ NotRecorded("record_failed_outer")
    /\ UNCHANGED NotTick

(* create_job and enqueue, or create_job raises. *)
CreateAndEnqueue ==
    /\ tick_pc = "create"
    /\ \/ /\ sched_jobs' = [sched_jobs EXCEPT ![CurrentSchedule] = @ + 1]
          /\ tick_pc' = "record_running"
       \/ /\ tick_pc' = "record_failed"
          /\ UNCHANGED sched_jobs
    /\ UNCHANGED <<sdocs, tick, due, tick_i, matched, attempted, fired, executions>>
    /\ UNCHANGED NotTick

(* record_execution(job_id, status="running"). *)
RecordRunning ==
    /\ tick_pc = "record_running"
    /\ Recorded("running") \/ NotRecorded("record_failed")
    /\ UNCHANGED NotTick

(* except Exception of _execute_schedule: record_execution("failed"). *)
RecordFailed ==
    /\ tick_pc = "record_failed"
    /\ Recorded("failed") \/ NotRecorded("record_failed_outer")
    /\ UNCHANGED NotTick

(* except Exception of _process_due_schedules: record_execution("failed");*)
(* when it raises the for loop is left and _run_loop logs the error.      *)
RecordFailedOuter ==
    /\ tick_pc = "record_failed_outer"
    /\ \/ Recorded("failed")
       \/ /\ tick_pc' = "sleep"
          /\ fired' = FiredAtPc(fired, "sleep")
          /\ UNCHANGED <<sdocs, tick, due, tick_i, matched, attempted,
                         executions, sched_jobs>>
    /\ UNCHANGED NotTick

TickNext ==
    \/ \E s \in ScheduleIds : TimePasses(s)
    \/ TickGetDue
    \/ ExecGetProject
    \/ RecordSkipped
    \/ CreateAndEnqueue
    \/ RecordRunning
    \/ RecordFailed
    \/ RecordFailedOuter

(* --------------------------- specifications --------------------------- *)

(* The job queue with either capacity, nothing else moving. *)
InitJobs == JobInit /\ SchedInit /\ HookInit /\ CalcIdle /\ TrigIdle /\ SignIdle /\ StoreIdle /\ TickIdle

(* The job queue as get_job_queue builds it. *)
Init ==
    /\ JobInit
    /\ max_concurrent = DefaultMaxConcurrent
    /\ SchedInit
    /\ HookInit
    /\ CalcIdle
    /\ TrigIdle
    /\ SignIdle
    /\ StoreIdle
    /\ TickIdle

InitOthersIdle ==
    /\ JobInit /\ max_concurrent = DefaultMaxConcurrent
    /\ SchedInit /\ HookInit

InitNextRun == InitOthersIdle /\ CalcInit /\ TrigIdle /\ SignIdle /\ StoreIdle /\ TickIdle

InitTrigger == InitOthersIdle /\ CalcIdle /\ TrigInit /\ SignIdle /\ StoreIdle /\ TickIdle

InitSign == InitOthersIdle /\ CalcIdle /\ TrigIdle /\ SignInit /\ StoreIdle /\ TickIdle

InitStore == InitOthersIdle /\ CalcIdle /\ TrigIdle /\ SignIdle /\ StoreInit /\ TickIdle

InitTick == InitOthersIdle /\ CalcIdle /\ TrigIdle /\ SignIdle /\ StoreIdle /\ TickInit

(* _calculate_next_run called with any arguments at any clock reading. *)
SpecNextRun == InitNextRun /\ [][Calculate]_vars

(* trigger_event called over any collection of webhooks. *)
SpecTrigger == InitTrigger /\ [][TrigNext]_vars

(* deliver_webhook building the request of any webhook. *)
SpecSign == InitSign /\ [][BuildAndPost]_vars

(* _scrape_and_analyze_target for any number of parsed items. *)
SpecStore == InitStore /\ [][StoreNext]_vars

(* The polling task of the scheduler over any collection of schedules. *)
SpecTick == InitTick /\ [][TickNext]_vars

SpecJobs == InitJobs /\ [][JobNext]_vars

(* With JobQueue.stop() called at any point. *)
SpecJobsStop == InitJobs /\ [][JobNext \/ Stop]_vars

(* The worker gets to take its next step whenever it has one; requests    *)
(* and stop() come when they come.                                        *)
SpecJobsStopFair == SpecJobsStop /\ WF_vars(ExecNext)

(* Jobs of several targets run with no cancellation and no stop(). *)
SpecJobsRun == InitJobs /\ [][JobRunNext]_vars

SpecJobsRunFair == SpecJobsRun /\ WF_vars(ExecRunNext)

SpecJobsAnyList == InitJobs /\ [][JobAnyListNext]_vars

(* One job of several targets, with cancellation and stop(). *)
SpecOneJob == InitJobs /\ [][OneJobNext]_vars

(* The schedule store under API requests and record_execution calls. *)
SpecSched == Init /\ [][SchedNext]_vars

(* The webhook store under API requests and deliveries. *)
SpecHooks == Init /\ [][HookNext]_vars

(* ------------------------- claims: job execution ----------------------- *)

RunningRecords == { j \in JobIds : job[j].status = "running" }

(* C1: at most max_concurrent executors are registered in _running and at *)
(* most max_concurrent job records have status running.                   *)
C1_BoundedConcurrency ==
    /\ Cardinality(running) <= max_concurrent
    /\ Cardinality(RunningRecords) <= max_concurrent

(* C1 witness: the pool is full (one executor with max_concurrent = 1,    *)
(* its job running) while another job waits in the queue.                 *)
C1_FullPoolJobWaiting ==
    /\ Cardinality(running) = max_concurrent
    /\ running \subseteq RunningRecords
    /\ queue # <<>>

(* C2: for every job record, progress = 100 exactly when status is        *)
(* completed.                                                             *)
C2_ProgressHundredIffCompleted ==
    \A j \in Created : (job[j].progress = 100) <=> (job[j].status = "completed")

JobContent(doc) == <<doc.status, doc.progress, doc.targets, doc.stats>>

(* C5: once a job record is completed, failed or cancelled, no step       *)
(* changes its status, progress, target statuses or stats.                *)
C5_TerminalImmutable ==
    [][\A j \in JobIds :
         job[j].status \in Terminal => JobContent(job'[j]) = JobContent(job[j])]_vars

InFlight(doc) == \E i \in 1..Len(doc.targets) : doc.targets[i].status = "running"

(* C6: a job record does not become cancelled while one of its targets is *)
(* still marked running (in flight).                                      *)
C6_CancelledAfterTargetSettled ==
    [][\A j \in JobIds :
         (job[j].status # "cancelled" /\ job'[j].status = "cancelled")
             => ~InFlight(job'[j])]_vars

(* C7: the executor never marks completed a job whose cancellation flag   *)
(* was set (JobQueue.cancel_job returned True) before that write.         *)
C7_CancelAckedNeverCompleted ==
    [][(wpc = "loop" /\ wpc' = "finish" /\ job'[wjob].status = "completed")
          => ~cancelled[wjob]]_vars

(* ------------------------- claims: schedule store ---------------------- *)

(* C3: in every state reached by create_schedule, update_schedule, toggle *)
(* and record_execution, in any interleaving, the schedule's next_run is  *)
(* non-null exactly when it is enabled.                                   *)
C3_NextRunIffEnabled ==
    schedule.exists => ((schedule.next_run # "null") <=> schedule.enabled)

(* C8: a record_execution write that flips enabled from true to false     *)
(* leaves consecutive_failures equal to max_retries, and no step leaves   *)
(* an enabled schedule with consecutive_failures >= max_retries, also     *)
(* after a re-enable through update or toggle.                            *)
C8_DisabledExactlyAtMaxRetries ==
    [][/\ (rpc = "write" /\ rpc' = "idle" /\ schedule.enabled /\ ~schedule'.enabled)
            => schedule'.consecutive_failures = schedule'.max_retries
       /\ (schedule'.exists /\ schedule'.enabled)
            => schedule'.consecutive_failures < schedule'.max_retries]_vars

(* C9: consecutive_failures equals the number of failed executions        *)
(* recorded since the last completed one (since creation if none).        *)
C9_FailuresSinceCompleted ==
    schedule.exists => schedule.consecutive_failures = failed_since_completed

(* Two failures were counted and a skipped execution recorded after them. *)
C9_TwoFailuresThenSkipped ==
    /\ schedule.exists
    /\ schedule.consecutive_failures = 2
    /\ failed_since_completed = 2
    /\ schedule.last_status = "skipped"
    /\ rpc = "idle"

(* ------------------------- claims: webhook store ----------------------- *)

(* C4: in every state reached by record_delivery, update_webhook and      *)
(* toggle_webhook, concurrent deliveries included, a webhook with         *)
(* consecutive_failures >= 5 is disabled.                                 *)
C4_FiveFailuresDisabled ==
    (webhook.exists /\ webhook.consecutive_failures >= 5) => ~webhook.enabled

(* C10: a failed delivery that finds the webhook with 4 consecutive       *)
(* failures writes enabled False and leaves it disabled; a successful     *)
(* delivery recorded on an enabled webhook with 4 consecutive failures    *)
(* leaves it with 0 failures and enabled.                                 *)
C10_FifthFailureDisables ==
    [][\A d \in Deliverers :
        /\ (dpc[d] = "find" /\ dpc'[d] = "update"
              /\ webhook.consecutive_failures = 4)
             => ("enabled" \in DOMAIN dupdate'[d] /\ ~dupdate'[d].enabled)
        /\ (dpc[d] = "update" /\ dpc'[d] = "idle")
             => /\ "enabled" \in DOMAIN dupdate[d] => ~webhook'.enabled
                /\ ("inc" \notin DOMAIN dupdate[d] /\ webhook.enabled
                      /\ webhook.consecutive_failures = 4)
                     => (webhook'.consecutive_failures = 0 /\ webhook'.enabled)]_vars

(* A failed delivery found the enabled webhook with 4 consecutive         *)
(* failures and is about to write its update.                             *)
C10_FifthFailureFound ==
    \E d \in Deliverers :
        /\ dpc[d] = "update"
        /\ "enabled" \in DOMAIN dupdate[d]
        /\ webhook.enabled
        /\ webhook.consecutive_failures = 4

(* ------------------- claims: job execution, continued ------------------ *)

C12_RunningReachesTerminal ==
    \A j \in JobIds : (job[j].status = "running") ~> (job[j].status \in Terminal)

InQueue(j) == \E i \in 1..Len(queue) : queue[i] = j

(* C13: when execute_job raises, the worker's next step removes the job   *)
(* from _running and leaves the dispatch loop waiting for the next job,   *)
(* and every job in the queue at that point is eventually dequeued and    *)
(* executed.                                                              *)
C13_LoopSurvivesRaise ==
    /\ [][(wpc = "raised" /\ wpc' # "raised")
             => (wpc' = "idle" /\ wjob \notin running')]_vars
    /\ \A j \in JobIds : (wpc = "raised" /\ InQueue(j)) ~> (wjob = j)

(* The second job is executing after the first one raised. *)
C13_NextJobAfterRaise ==
    /\ job[1].status = "failed"
    /\ 1 \notin running
    /\ wjob = 2
    /\ wpc = "loop"

(* -------------------- claims: schedule store, continued ---------------- *)

(* C14: the project has one schedule document at most, also when two      *)
(* create_schedule requests are processed concurrently.                   *)
C14_OneSchedulePerProject == schedule_docs <= 1

(* The days looked at ahead of now. *)
Horizon == 40

(* The instants that match the schedule pattern in the zone: local time   *)
(* at minute 0 of an hour (hourly), or at the schedule's time of a day    *)
(* (of the day of the week, of the day of the month).                      *)
Matching(frequency, schedule_time, day_of_week, day_of_month, tz_name, now) ==
    LET hour == parse_time(schedule_time)[1]
        minute == parse_time(schedule_time)[2]
        today == (now + OffsetAt(tz_name, now)) \div 1440
        DayMatches(n) ==
            CASE frequency = "weekly" ->
                    n % 7 = (IF day_of_week # NoDay THEN day_of_week ELSE 0)
              [] frequency = "monthly" ->
                    DateTime(n * 1440).day =
                        (IF day_of_month # NoDay THEN day_of_month ELSE 1)
              [] OTHER -> TRUE
    IN  IF frequency = "hourly"
        THEN { t \in { (((now + o) \div 60) + k) * 60 - o :
                          k \in 0..3, o \in Offsets(tz_name) } :
                 (t + OffsetAt(tz_name, t)) % 60 = 0 }
        ELSE { t \in { n * 1440 + hour * 60 + minute - o :
                          n \in (today - 1)..(today + Horizon),
                          o \in Offsets(tz_name) } :
                 LET w == t + OffsetAt(tz_name, t)
                 IN  /\ w % 1440 = hour * 60 + minute
                     /\ DayMatches(w \div 1440) }

Earliest(S) == CHOOSE t \in S : \A u \in S : t <= u

(* C15: _calculate_next_run returns the earliest instant strictly later   *)
(* than now that matches the schedule pattern in the schedule's timezone. *)
C15_EarliestMatchingInstant ==
    calc_pc = "done" =>
        calc_out = Earliest({ t \in Matching(calc_in.frequency, calc_in.time,
                                    calc_in.day_of_week, calc_in.day_of_month,
                                    calc_in.tz, calc_in.now) : t > calc_in.now })

(* ------------------------- claims: trigger_event ----------------------- *)

(* The webhooks the event is meant for. *)
Subscribed(h) ==
    /\ hooks[h].enabled
    /\ hooks[h].user_id = trig_args.user_id
    /\ trig_args.event \in hooks[h].events
    /\ \/ hooks[h].project_id = NoProject
       \/ (trig_args.project_id # NoProject
             /\ hooks[h].project_id = trig_args.project_id)

(* C16: trigger_event delivers to exactly the enabled webhooks of the     *)
(* user that are subscribed to the event and are global or of the given   *)
(* project, posts to no other webhook, and returns their number.          *)
C16_FanOutToSubscribed ==
    trig_pc \in {"gather", "returned"} =>
        /\ trig_sel = { h \in WebhookIds : Subscribed(h) }
        /\ posted \subseteq trig_sel
        /\ trig_pc = "returned" =>
              (posted = trig_sel /\ trig_ret = Cardinality(trig_sel))

(* It returned 1 after the POST to the one webhook the event is meant    *)
(* for, a disabled webhook being left out.                                *)
C16_OneDeliveredOneLeftOut ==
    /\ trig_pc = "returned"
    /\ trig_ret = 1
    /\ Cardinality(posted) = 1
    /\ \E h \in WebhookIds : ~hooks[h].enabled /\ h \notin posted

(* C17: whatever the outcome of each delivery, the recording raising      *)
(* included, trigger_event does not raise, and when it returns every      *)
(* selected webhook's delivery was attempted and has ended.               *)
C17_FailuresStayApart ==
    /\ trig_pc # "raised"
    /\ trig_pc = "returned" =>
          \A h \in trig_sel : h \in posted /\ trig_result[h] # "pending"
    /\ trig_pc = "gather" =>
          \A h \in trig_sel : trig_result[h] = "pending" => h \notin posted

(* It returned after one delivery raised and another one succeeded. *)
C17_ReturnedAfterException ==
    /\ trig_pc = "returned"
    /\ \E h \in trig_sel : trig_result[h] = "exception"
    /\ \E h \in trig_sel : trig_result[h] = "true"

(* ---------------------------- claims: progress -------------------------- *)

(* C18: the progress of a job never decreases from one step to the next,  *)
(* whether the job runs to its end, is cancelled or is stopped.           *)
C18_ProgressNeverDecreases ==
    [][\A j \in JobIds : job'[j].progress >= job[j].progress]_vars

(* A running job with one of its two targets done. *)
C18_HalfWay ==
    \E j \in Created :
        /\ job[j].status = "running"
        /\ job[j].progress > 0
        /\ job[j].progress < 100

(* --------------------------- claims: signature ------------------------- *)

C20_QueuedJobStartsBelowCapacity ==
    (max_concurrent >= 2 /\ queue # <<>> /\ running # {}
        /\ Cardinality(running) < max_concurrent) => ENABLED WorkerAdmit

(* --------------------- claims: cancelled while queued ------------------ *)

(* C22: a job that is cancelled while it waits in the queue is never set  *)
(* to running afterwards and none of its targets is started.              *)
C22_CancelledInQueueNeverRuns ==
    \A j \in JobIds :
        [](((job[j].status = "cancelled" /\ InQueue(j)) =>
              [](job[j].status # "running"
                   /\ \A i \in 1..Len(job[j].targets) :
                          job[j].targets[i].status # "running")))

(* -------------------------- claims: stored results --------------------- *)

(* C23: when _scrape_and_analyze_target returns (the target ends          *)
(* completed), every parsed item with text has exactly one result         *)
(* document and the returned results_count is the number of those items.  *)
C23_EachItemStoredOnce ==
    st_pc = "returned" =>
        /\ \A i \in Items :
              stored[i] = IF i <= Len(scraped_data) /\ scraped_data[i] THEN 1 ELSE 0
        /\ results_stored = Len(WithText(scraped_data))

(* ----------------------- claims: progress, continued ------------------- *)

(* round(a / b) for b > 0, halves going to the even neighbour. *)
Round(a, b) ==
    LET q == a \div b
        r == a % b
    IN  IF 2 * r < b THEN q
        ELSE IF 2 * r > b THEN q + 1
        ELSE IF q % 2 = 0 THEN q ELSE q + 1

(* C24: when the executor is done with the k-th of the N targets of a     *)
(* job (completed, failed or not found) and is back at the top of its     *)
(* loop, the stored progress is round(100 * k / N).                       *)
C24_ProgressIsRoundedShare ==
    (wpc = "loop" /\ widx >= 2) =>
        job[wjob].progress = Round(100 * (widx - 1), TargetCount)

(* --------------------------- claims: rate limit ------------------------ *)

(* C25: within a job, the step that takes the executor from one target to *)
(* the next one is the rate-limit sleep, however the target ended.        *)
C25_SleepBetweenTargets ==
    [][(wpc # "setup" /\ widx >= 1 /\ widx' = widx + 1 /\ widx' <= TargetCount)
          => wpc = "sleep"]_vars

(* ------------------------ claims: lifecycle events --------------------- *)

(* C28: once the executor has moved a job to running, completed or        *)
(* failed, trigger_event has been called for the lifecycle event.         *)
C28_LifecycleEventTriggered ==
    \A j \in JobIds :
        job[j].status \in {"running", "completed", "failed"} => trig_pc # "off"

(* ------------------------- claims: target entries ---------------------- *)

(* C29: in a completed job every entry of the targets list is completed   *)
(* or failed, for every target list create_job accepts.                   *)
C29_CompletedJobTargetsSettled ==
    \A j \in Created :
        job[j].status = "completed" =>
            \A i \in 1..Len(job[j].targets) :
                job[j].targets[i].status \in {"completed", "failed"}

(* ---------------------------- claims: scheduler ------------------------ *)

(* C21: once a tick has enqueued a job for a due schedule and recorded    *)
(* the execution as running, the query of a later tick does not match the *)
(* schedule again as long as its next_run has not been written anew.      *)
C21_OneJobPerDueOccurrence ==
    [][\A s \in DOMAIN fired :
          (fired[s] = "before" /\ tick' = tick + 1) => s \notin matched']_vars

(* C26: the step that records an execution as skipped, the project of    *)
(* the schedule not being found, leaves every schedule document as it is. *)
C26_SkippedLeavesScheduleUntouched ==
    [][(tick_pc = "record_skipped"
          /\ executions'[CurrentSchedule] = executions[CurrentSchedule] + 1)
        => sdocs' = sdocs]_vars

(* C27: when a tick is over, _execute_schedule was called for every       *)
(* schedule of the list the tick got, whatever failed on the way.         *)
C27_EveryDueScheduleAttempted ==
    tick_pc = "sleep" => attempted = { due[k] : k \in 1..Len(due) }

(* C30: the last_status of every schedule document is one the Schedule    *)
(* model admits.                                                          *)
C30_LastStatusAdmitted ==
    \A s \in DOMAIN sdocs : sdocs[s].last_status \in AdmittedLastStatus

=============================================================================
